---- MODULE Spec2Model ----
(***************************************************************************)
(* SERP tracker (src/lib/serp-tracker.js, src/database/schema.sql,         *)
(* src/scripts/track-priority-keywords.js): one tracker process that runs  *)
(* tracking invocations against the PostgreSQL tables position_history,    *)
(* tracking_alerts and sync_log, with its in-memory lookup cache (Spec),   *)
(* and the script's start with the keyword import into tracked_keywords    *)
(* and the dry run (ImportSpec).                                           *)
(*                                                                         *)
(* Time is Date.now() in milliseconds; a DATE is the number of the UTC day.*)
(* Columns the modelled code never reads back (created_at, updated_at,     *)
(* started_at, completed_at, raw_data, message, project_name,              *)
(* location_name) are left out of the rows.                                *)
(***************************************************************************)
EXTENDS Integers, Sequences, FiniteSets, TLC

VARIABLES
  config,            \* this.config (tracking-config.json, read by init)
  tracked_keywords,  \* table tracked_keywords
  position_history,  \* table position_history, in insertion (id) order
  tracking_alerts,   \* table tracking_alerts, in insertion (id) order
  sync_log,          \* table sync_log, in insertion (id) order
  cache,             \* this.cache : Map cacheKey -> {data, timestamp}
  stats,             \* this.stats
  now,               \* the wall clock, Date.now()
  pc,                \* where the process is in trackKeywordsByPriority
  keywords,          \* trackKeywordsByPriority: const keywords
  i,                 \* trackKeywordsByPriority: loop variable i (batch offset)
  j,                 \* trackKeywordBatch: number of keywords of the batch already handled
  results,           \* trackKeywordsByPriority: const results
  syncLogId,         \* trackKeywordsByPriority: const syncLogId
  alertIdx,          \* generateAlerts: position in keywordIds
  alertsCreated,     \* generateAlerts: let alertsCreated
  alertsBefore,      \* history: rows of tracking_alerts when this invocation started
  historyBefore,     \* history: rows of position_history when this invocation started
  interrupted,       \* history: where the last SIGINT found the invocation
  change,            \* generateAlerts: const change (the view row last read)
  attempted,         \* history: per loop iteration of this invocation, what it did
  last,              \* history: the most recent loop iteration of trackKeywordBatch
  runs,              \* number of invocations started
  faults,            \* number of provider and storage failures so far
  ticks,             \* number of short clock advances
  weeks,             \* number of long clock advances
  options,           \* track-priority-keywords.js: const options (parseArgs)
  txn,               \* importKeywordsFromConfig: tracked_keywords as the open transaction sees it
  imp,               \* importKeywordsFromConfig: statements done, let imported, let skipped
  tableBefore,       \* history: tracked_keywords when the script started
  did,               \* history: what this invocation has called so far
  taskQueue,         \* SEODomainAgent: this.taskQueue, the queued task objects by id
  activeTask,        \* SEODomainAgent: this.activeTask, a task object's id or 0 for null
  tasks,             \* SEODomainAgent: the task objects addTask created, by id
  metrics,           \* SEODomainAgent: this.metrics
  calls,             \* SEODomainAgent: processNextTask calls awaiting executeTask / storeTaskResult
  shifted            \* history: the ids processNextTask took from the queue, in order

vars == <<config, tracked_keywords, position_history, tracking_alerts, sync_log,
          cache, stats, now, pc, keywords, i, j, results, syncLogId, alertIdx,
          alertsCreated, alertsBefore, historyBefore, interrupted, change, attempted, last,
          runs, faults, ticks, weeks, options, txn, imp, tableBefore, did,
          taskQueue, activeTask, tasks, metrics, calls, shifted>>

scriptVars == <<options, txn, imp, tableBefore>>
dbVars == <<tracked_keywords, position_history, tracking_alerts, sync_log>>
runVars == <<keywords, i, j, results, syncLogId, alertIdx, alertsCreated, change>>
ghostVars == <<alertsBefore, historyBefore, interrupted, attempted, last, did>>
agentVars == <<taskQueue, activeTask, tasks, metrics, calls, shifted>>

----------------------------------------------------------------------------
(* Bounds of the model *)

MaxRuns == 2      \* invocations of trackKeywordsByPriority
MaxFaults == 1    \* provider and storage failures
MaxTicks == 2     \* short clock advances (half a cache TTL each)
MaxWeeks == 1
MaxSaves == 3
MaxSleeps == 3
MaxTasks == 3     \* long clock advances (seven days each)

----------------------------------------------------------------------------
(* Nullable values: an INTEGER column / JS number-or-null is {} or {n};    *)
(* a nullable text is the text or NULLTEXT.                                 *)

NULL == {}
Some(n) == {n}
Val(v) == CHOOSE n \in v : TRUE
NULLTEXT == "null"

\* JS ToNumber as applied by the relational operators: null compares as 0
ToNumber(v) == IF v = NULL THEN 0 ELSE Val(v)

\* SQL integer subtraction: NULL if either side is NULL
SqlMinus(a, b) == IF a = NULL \/ b = NULL THEN NULL ELSE Some(Val(a) - Val(b))

\* SQL equality as used by a UNIQUE index: NULL is distinct from everything
SqlUniqueEq(a, b) == a # NULLTEXT /\ b # NULLTEXT /\ a = b

----------------------------------------------------------------------------
(* Program constants *)

cacheTimeout == 3600000
DayMs == 86400000
WindowDays == 7

\* new Date().toISOString().split('T')[0]: the UTC calendar day of t
Today(t) == t \div DayMs

\* JS `x || null` on a number-or-null: 0 is falsy
OrNull(v) == IF v = NULL \/ Val(v) = 0 THEN NULL ELSE v

----------------------------------------------------------------------------
(* Inputs: configurations, the keyword table, provider answers *)

\* config.projects: the projects in the order of the file, each with its keyword
\* lists by priority key in the order of the file (siteUrl as its parts: the
\* 'sc-domain:' prefix and the domain); a keyword entry is
\* {keyword, searchVolume, targetPosition, trackingFrequency}, an absent field is null
Kw(keyword, searchVolume, targetPosition, trackingFrequency) ==
  [keyword |-> keyword, searchVolume |-> searchVolume, targetPosition |-> targetPosition,
   trackingFrequency |-> trackingFrequency]

\* the configuration whose import leaves the rows of KeywordRows
ProjectsAsImported ==
  << [id |-> "P", name |-> "Cafe", siteUrl |-> <<"sc-domain:", "cafe.example">>,
      location |-> Some(2840), locationName |-> "United States",
      keywords |-> << [priority |-> "high",
                       list |-> << Kw("coffee", Some(900), Some(3), "daily"),
                                   Kw("mate", Some(700), Some(10), "daily") >>],
                      [priority |-> "medium",
                       list |-> << Kw("tea", NULL, NULL, NULLTEXT) >>] >>],
     [id |-> "Q", name |-> "Shop", siteUrl |-> <<"sc-domain:", "shop.example">>,
      location |-> NULL, locationName |-> NULLTEXT,
      keywords |-> << [priority |-> "high",
                       list |-> << Kw("coffee", Some(500), Some(3), "daily") >>] >>] >>

\* the file edited: coffee moved to the low list with a new target, frequency and
\* volume, a new keyword added, mate moved to the medium list, the project and
\* its location renamed
ProjectsEdited ==
  << [id |-> "P", name |-> "Cafe and Tea", siteUrl |-> <<"sc-domain:", "cafe.example">>,
      location |-> Some(2840), locationName |-> "USA",
      keywords |-> << [priority |-> "low",
                       list |-> << Kw("coffee", Some(0), Some(5), "monthly") >>],
                      [priority |-> "medium",
                       list |-> << Kw("chai", Some(300), NULL, "weekly"),
                                   Kw("mate", Some(700), Some(8), "daily") >>] >>] >>

\* the file with a priority key the CHECK constraint of the table refuses
ProjectsRefused ==
  << [id |-> "P", name |-> "Cafe", siteUrl |-> <<"sc-domain:", "cafe.example">>,
      location |-> Some(2840), locationName |-> "United States",
      keywords |-> << [priority |-> "high",
                       list |-> << Kw("chai", Some(300), Some(3), NULLTEXT) >>],
                      [priority |-> "urgent",
                       list |-> << Kw("tea", Some(100), Some(1), "daily") >>] >>] >>

\* tracking-config.json as far as the tracker reads it (alertThresholds: the
\* object with the three thresholds is present)
Configs ==
  { [batchSize |-> 1, delayBetweenBatches |-> 1000, device |-> "desktop",
     critical |-> 10, warning |-> 5, enterTopN |-> 10,
     locationCode |-> 2840, locationName |-> "United States",
     alertThresholds |-> TRUE, projects |-> ProjectsAsImported],
    [batchSize |-> 2, delayBetweenBatches |-> 1000, device |-> "desktop",
     critical |-> 12, warning |-> 5, enterTopN |-> 10,
     locationCode |-> 2840, locationName |-> "United States",
     alertThresholds |-> TRUE, projects |-> ProjectsAsImported],
    [batchSize |-> 2, delayBetweenBatches |-> 1000, device |-> "desktop",
     critical |-> 0, warning |-> 0, enterTopN |-> 10,
     locationCode |-> 2840, locationName |-> "United States",
     alertThresholds |-> TRUE, projects |-> ProjectsAsImported] }

\* tracking-config.json files that init reads without complaint although the
\* tracker cannot work with them: a batch size of 0, no alertThresholds object
BadConfigs ==
  { [c EXCEPT !.batchSize = 0] : c \in { d \in Configs : d.batchSize = 1 } }
  \cup { [c EXCEPT !.alertThresholds = FALSE] : c \in Configs }

\* rows of tracked_keywords as importKeywordsFromConfig leaves them (imported at
\* 00:00 UTC on day 0; updated_at is left out of the rows)
KeywordRows ==
  { [id |-> 1, keyword |-> "coffee", project_id |-> "P", project_name |-> "Cafe",
     location_name |-> "United States", created_at |-> 0, priority |-> "high",
     target_position |-> Some(3), tracking_frequency |-> "daily",
     search_volume |-> Some(900), location_code |-> 2840, device |-> "desktop",
     is_active |-> TRUE],
    [id |-> 2, keyword |-> "coffee", project_id |-> "Q", project_name |-> "Shop",
     location_name |-> "United States", created_at |-> 0, priority |-> "high",
     target_position |-> Some(3), tracking_frequency |-> "daily",
     search_volume |-> Some(500), location_code |-> 2840, device |-> "desktop",
     is_active |-> TRUE],
    [id |-> 3, keyword |-> "tea", project_id |-> "P", project_name |-> "Cafe",
     location_name |-> "United States", created_at |-> 0, priority |-> "medium",
     target_position |-> NULL, tracking_frequency |-> "weekly",
     search_volume |-> NULL, location_code |-> 2840, device |-> "desktop",
     is_active |-> TRUE],
    [id |-> 4, keyword |-> "mate", project_id |-> "P", project_name |-> "Cafe",
     location_name |-> "United States", created_at |-> 0, priority |-> "high",
     target_position |-> Some(10), tracking_frequency |-> "daily",
     search_volume |-> Some(700), location_code |-> 2840, device |-> "desktop",
     is_active |-> FALSE] }

\* the configurations of the import runs: one tracker configuration, three files
ImportConfigs ==
  { [c EXCEPT !.projects = p] :
      c \in { d \in Configs : d.batchSize = 1 },
      p \in {ProjectsAsImported, ProjectsEdited, ProjectsRefused} }

\* parseArgs: the options of the script
Options ==
  [dryRun : BOOLEAN, import : BOOLEAN, priority : {"high", "medium"},
   project : {NULLTEXT, "P", "Z"}]

\* the arguments the script passes to trackKeywordsByPriority
Invocations ==
  { <<"high", NULLTEXT>>, <<"medium", "P">>, <<"low", NULLTEXT>> }

\* what fetchPositionFromDataForSEO returns on success: {position, url, serpFeatures}
PositionData ==
  { [position |-> NULL, url |-> NULLTEXT, serpFeatures |-> {}],
    [position |-> Some(5), url |-> "/a", serpFeatures |-> {"Featured Snippet"}],
    [position |-> Some(16), url |-> "/b", serpFeatures |-> {}] }

\* the provider's answer to one request: position data, or the request fails
\* (request error, no tasks, task status other than 20000)
ProviderError == [error |-> "ProviderError"]
ProviderAnswers == PositionData \cup {ProviderError}

----------------------------------------------------------------------------
(* Repository queries and statements *)

\* text collation of the priority column ('high' < 'low' < 'medium')
TextRank(p) == CASE p = "high" -> 1 [] p = "low" -> 2 [] p = "medium" -> 3

\* ORDER BY priority DESC, search_volume DESC (NULLs first in a DESC order)
SortsBefore(a, b) ==
  \/ TextRank(a.priority) > TextRank(b.priority)
  \/ /\ a.priority = b.priority
     /\ \/ a.search_volume = NULL /\ b.search_volume # NULL
        \/ /\ a.search_volume # NULL /\ b.search_volume # NULL
           /\ Val(a.search_volume) > Val(b.search_volume)

\* variant of getKeywordsToTrack: the query without its is_active condition
getKeywordsToTrack_Inactive(table, priority, projectId) ==
  LET S == { k \in table : /\ (priority # NULLTEXT => k.priority = priority)
                           /\ (projectId # NULLTEXT => k.project_id = projectId) }
      n == Cardinality(S)
  IN { s \in [1..n -> S] :
         /\ \A a, b \in 1..n : a # b => s[a] # s[b]
         /\ \A a, b \in 1..n : a < b => ~SortsBefore(s[b], s[a]) }

\* getKeywordsToTrack: the possible result lists (rows that tie come in any order)
getKeywordsToTrack(table, priority, projectId) ==
  LET S == { k \in table : /\ k.is_active
                           /\ (priority # NULLTEXT => k.priority = priority)
                           /\ (projectId # NULLTEXT => k.project_id = projectId) }
      n == Cardinality(S)
  IN { s \in [1..n -> S] :
         /\ \A a, b \in 1..n : a # b => s[a] # s[b]
         /\ \A a, b \in 1..n : a < b => ~SortsBefore(s[b], s[a]) }

\* variant of NewPositionRow: the date taken half an hour behind UTC (a local
\* calendar day instead of the UTC day)
NewPositionRow_LocalDay(history, keywordId, positionData, t, cfg) ==
  [ id |-> Len(history) + 1,
    keyword_id |-> keywordId,
    position |-> positionData.position,
    url |-> positionData.url,
    date |-> Today(t - (cacheTimeout \div 2)),
    device |-> cfg.device,
    location |-> NULLTEXT,
    serp_features |-> positionData.serpFeatures,
    data_source |-> "dataforseo" ]

\* the row savePosition inserts: location is not among the inserted columns
NewPositionRow(history, keywordId, positionData, t, cfg) ==
  [ id |-> Len(history) + 1,
    keyword_id |-> keywordId,
    position |-> positionData.position,
    url |-> positionData.url,
    date |-> Today(t),
    device |-> cfg.device,
    location |-> NULLTEXT,
    serp_features |-> positionData.serpFeatures,
    data_source |-> "dataforseo" ]

\* UNIQUE(keyword_id, date, device, location, data_source)
Conflicts(r, new) ==
  /\ r.keyword_id = new.keyword_id
  /\ r.date = new.date
  /\ SqlUniqueEq(r.device, new.device)
  /\ SqlUniqueEq(r.location, new.location)
  /\ SqlUniqueEq(r.data_source, new.data_source)

\* savePosition: INSERT ... ON CONFLICT (...) DO UPDATE SET position, url, serp_features
savePosition(history, keywordId, positionData, t, cfg) ==
  LET new == NewPositionRow(history, keywordId, positionData, t, cfg)
      hit == { n \in DOMAIN history : Conflicts(history[n], new) }
  IN IF hit = {}
     THEN Append(history, new)
     ELSE [ n \in DOMAIN history |->
              IF n \in hit
              THEN [history[n] EXCEPT !.position = new.position, !.url = new.url,
                                      !.serp_features = new.serp_features]
              ELSE history[n] ]

\* ORDER BY date DESC LIMIT 1 over the rows of `rows`: any row of the greatest date
LatestOf(rows) == { r \in rows : \A q \in rows : q.date <= r.date }

NoRow == [position |-> NULL, date |-> NULL]

\* what savePosition returns, {previousPosition, currentPosition}: the SELECT
\* position ... ORDER BY date DESC LIMIT 1 runs before the INSERT and returns any
\* row of the keyword's greatest date; previousPosition is its position || null
savePositionReturns(history, keywordId, positionData) ==
  LET mine == { history[n] : n \in { m \in DOMAIN history : history[m].keyword_id = keywordId } }
      prev == IF mine = {} THEN {NULL} ELSE { OrNull(r.position) : r \in LatestOf(mine) }
  IN { [previousPosition |-> p, currentPosition |-> positionData.position] : p \in prev }

\* v_position_changes_7d WHERE id = keywordId: the rows the query can return
v_position_changes_7d(table, history, keywordId) ==
  LET mine == { history[n] : n \in { m \in DOMAIN history : history[m].keyword_id = keywordId } }
      cur == IF mine = {} THEN {NoRow}
             ELSE { [position |-> r.position, date |-> Some(r.date)] : r \in LatestOf(mine) }
      prevOf(c) ==
        LET old == IF c.date = NULL THEN {}
                   ELSE { r \in mine : r.date <= Val(c.date) - WindowDays }
        IN IF old = {} THEN {NoRow}
           ELSE { [position |-> r.position, date |-> Some(r.date)] : r \in LatestOf(old) }
      diff(c, p) == SqlMinus(c.position, p.position)
  IN IF \E k \in table : k.id = keywordId /\ k.is_active
     THEN UNION { { [ id |-> keywordId,
                      current_position |-> c.position,
                      previous_position |-> p.position,
                      position_change |-> diff(c, p),
                      trend |-> IF diff(c, p) = NULL THEN "stable"
                                ELSE IF Val(diff(c, p)) < 0 THEN "improved"
                                ELSE IF Val(diff(c, p)) > 0 THEN "declined"
                                ELSE "stable" ] : p \in prevOf(c) } : c \in cur }
     ELSE {}

\* generateAlerts: the if / else-if chain over one view row
AlertKind(row, cfg) ==
  IF ToNumber(row.position_change) >= cfg.critical THEN "critical"
  ELSE IF ToNumber(row.position_change) >= cfg.warning THEN "warning"
  ELSE IF /\ ToNumber(row.current_position) <= cfg.enterTopN
          /\ ToNumber(row.previous_position) > cfg.enterTopN THEN "opportunity"
  ELSE "none"

\* variant of createAlert: one alert row per keyword, an existing one overwritten
createAlert_Overwrites(alerts, keywordId, alertType, positionChange, changeData) ==
  IF \E n \in DOMAIN alerts : alerts[n].keyword_id = keywordId
  THEN [ n \in DOMAIN alerts |->
           IF alerts[n].keyword_id = keywordId
           THEN [alerts[n] EXCEPT !.alert_type = alertType,
                                  !.position_change = positionChange,
                                  !.old_position = changeData.previous_position,
                                  !.new_position = changeData.current_position,
                                  !.is_read = FALSE]
           ELSE alerts[n] ]
  ELSE Append(alerts, [ id |-> Len(alerts) + 1,
                        keyword_id |-> keywordId,
                        alert_type |-> alertType,
                        position_change |-> positionChange,
                        old_position |-> changeData.previous_position,
                        new_position |-> changeData.current_position,
                        is_read |-> FALSE ])

\* createAlert: the row inserted into tracking_alerts
createAlert(alerts, keywordId, alertType, positionChange, changeData) ==
  Append(alerts, [ id |-> Len(alerts) + 1,
                   keyword_id |-> keywordId,
                   alert_type |-> alertType,
                   position_change |-> positionChange,
                   old_position |-> changeData.previous_position,
                   new_position |-> changeData.current_position,
                   is_read |-> FALSE ])

\* createSyncLog: the row inserted into sync_log
createSyncLog(log, syncType, projectId, keywordsCount) ==
  Append(log, [ id |-> Len(log) + 1,
                sync_type |-> syncType,
                project_id |-> projectId,
                keywords_processed |-> keywordsCount,
                keywords_success |-> NULL,
                keywords_failed |-> NULL,
                errors |-> <<>>,
                status |-> "running" ])

\* variant of completeSyncLog: the UPDATE without its WHERE id = logId
completeSyncLog_AllRows(log, logId, success, failed, errors) ==
  [ n \in DOMAIN log |->
      [log[n] EXCEPT !.keywords_success = Some(success),
                     !.keywords_failed = Some(failed),
                     !.errors = errors,
                     !.status = "completed"] ]

\* completeSyncLog: UPDATE sync_log SET ... WHERE id = logId
completeSyncLog(log, logId, success, failed, errors) ==
  [ n \in DOMAIN log |->
      IF log[n].id = logId
      THEN [log[n] EXCEPT !.keywords_success = Some(success),
                          !.keywords_failed = Some(failed),
                          !.errors = errors,
                          !.status = IF Len(errors) > 0 THEN "completed" ELSE "completed"]
      ELSE log[n] ]

\* the cache key and the freshness test of trackKeywordBatch
CacheKey(keyword) == <<keyword.keyword, keyword.location_code, keyword.device>>

\* variant of CacheFresh: an entry exactly one TTL old still counts as fresh
CacheFresh_Inclusive(c, key, t) == key \in DOMAIN c /\ (t - c[key].timestamp) <= cacheTimeout

CacheFresh(c, key, t) == key \in DOMAIN c /\ (t - c[key].timestamp) < cacheTimeout


----------------------------------------------------------------------------
(* The tracker process *)

StartTime == DayMs - (cacheTimeout \div 2)    \* 23:30 UTC on day 0

NoStats == [apiCallsMade |-> 0, positionsUpdated |-> 0, alertsGenerated |-> 0, errors |-> <<>>]
NoResults == [success |-> 0, failed |-> 0, errors |-> <<>>]
NoChange == [id |-> 0, current_position |-> NULL, previous_position |-> NULL,
             position_change |-> NULL, trend |-> "stable"]
NoOptions == [dryRun |-> FALSE, import |-> FALSE, priority |-> "high", project |-> NULLTEXT]
NoTxn == [open |-> FALSE, table |-> {}]
NoImport == [pos |-> 0, imported |-> 0, skipped |-> 0]
NoLast == [id |-> 0, time |-> 0, age |-> NULL, via |-> "none", calls |-> 0,
           saved |-> FALSE, rowsBefore |-> 0, data |-> ProviderError, returned |-> <<>>]
NoneDone == [batches |-> 0, sleeps |-> 0, evaluated |-> <<>>, evaluatedAt |-> 0]
NoMetrics == [tasksCompleted |-> 0, tasksSuccess |-> 0, tasksFailed |-> 0]

\* a new SERPTracker, nothing tracked yet, no script option read; a new
\* SEODomainAgent, nothing queued
AtRest ==
  /\ position_history = <<>>
  /\ tracking_alerts = <<>>
  /\ sync_log = <<>>
  /\ cache = <<>>
  /\ stats = NoStats
  /\ now = StartTime
  /\ keywords = <<>>
  /\ i = 0
  /\ j = 0
  /\ results = NoResults
  /\ syncLogId = 0
  /\ alertIdx = 0
  /\ alertsCreated = 0
  /\ alertsBefore = 0
  /\ historyBefore = 0
  /\ interrupted = "no"
  /\ change = NoChange
  /\ attempted = <<>>
  /\ last = NoLast
  /\ runs = 0
  /\ faults = 0
  /\ ticks = 0
  /\ weeks = 0
  /\ options = NoOptions
  /\ txn = NoTxn
  /\ imp = NoImport
  /\ did = NoneDone
  /\ taskQueue = <<>>
  /\ activeTask = 0
  /\ tasks = <<>>
  /\ metrics = NoMetrics
  /\ calls = [execute |-> 0, store |-> 0]
  /\ shifted = <<>>

Init ==
  /\ config \in Configs
  /\ tracked_keywords = KeywordRows
  /\ tableBefore = KeywordRows
  /\ pc = "idle"
  /\ AtRest

\* trackKeywordsByPriority up to the first batch: the due list, the early return
\* on an empty list, createSyncLog
StartTracking ==
  /\ pc \in {"idle", "done", "failed"}
  /\ runs < MaxRuns
  /\ \E inv \in Invocations :
       \E kws \in getKeywordsToTrack(tracked_keywords, inv[1], inv[2]) :
         /\ options' = [NoOptions EXCEPT !.priority = inv[1], !.project = inv[2]]
         /\ keywords' = kws
         /\ IF Len(kws) = 0
            THEN /\ pc' = "done"
                 /\ UNCHANGED <<sync_log, syncLogId>>
            ELSE /\ pc' = "batch"
                 /\ sync_log' = createSyncLog(sync_log, "dataforseo", inv[2], Len(kws))
                 /\ syncLogId' = Len(sync_log) + 1
  /\ i' = 0
  /\ j' = 0
  /\ results' = NoResults
  /\ alertIdx' = 0
  /\ alertsCreated' = 0
  /\ alertsBefore' = Len(tracking_alerts)
  /\ historyBefore' = Len(position_history)
  /\ interrupted' = "no"
  /\ change' = NoChange
  /\ attempted' = <<>>
  /\ last' = NoLast
  /\ did' = NoneDone
  /\ runs' = runs + 1
  /\ UNCHANGED <<txn, imp, tableBefore, agentVars, config, tracked_keywords, position_history,
                 tracking_alerts, cache, stats, now, faults, ticks, weeks>>

\* variant of BatchLen: the batch is the whole rest of the list, keywords.slice(i)
BatchLen_Rest(kws, off, cfg) == Len(kws) - off

\* keywords.slice(i, i + batchSize).length
BatchLen(kws, off, cfg) == IF off + cfg.batchSize <= Len(kws) THEN cfg.batchSize ELSE Len(kws) - off

\* variant of HandledAfter: the try/catch around the loop instead of inside it, so a
\* failure ends the batch
HandledAfter_AbortsBatch(handled, batchLen, failed) ==
  IF failed THEN batchLen ELSE handled + 1

\* the for-of loop of trackKeywordBatch with its try/catch inside the loop body:
\* how many keywords of the batch are handled once this one is, failed or not
HandledAfter(handled, batchLen, failed) == handled + 1

\* variant of CacheAfterFetch: the entry written before the answer is examined
CacheAfterFetch_Unexamined(c, key, answer, t, domain) ==
  [ k \in DOMAIN c \cup {key} |->
      IF k = key THEN [data |-> answer, timestamp |-> t, domain |-> domain] ELSE c[k] ]

\* this.cache.set(cacheKey, {data, timestamp}) after the fetch returned; a fetch
\* that throws leaves the loop body before the set. `domain` is kept beside the
\* entry to tell which domain's rank the data is; the program does not store it
CacheAfterFetch(c, key, answer, t, domain) ==
  IF answer = ProviderError THEN c
  ELSE [ k \in DOMAIN c \cup {key} |->
           IF k = key THEN [data |-> answer, timestamp |-> t, domain |-> domain] ELSE c[k] ]

\* siteUrl.replace('sc-domain:', ''): the first 'sc-domain:' part removed
RECURSIVE StripScDomain(_)
StripScDomain(url) ==
  IF url = <<>> THEN <<>>
  ELSE IF Head(url) = "sc-domain:" THEN Tail(url)
  ELSE <<Head(url)>> \o StripScDomain(Tail(url))

\* getProjectDomain(keyword): the domain of the first project of the configuration
\* that lists the keyword text under high, medium or low; null when none does
getProjectDomain(cfg, keyword) ==
  LET lists(n) == { g \in DOMAIN cfg.projects[n].keywords :
                      /\ cfg.projects[n].keywords[g].priority \in {"high", "medium", "low"}
                      /\ \E m \in DOMAIN cfg.projects[n].keywords[g].list :
                           cfg.projects[n].keywords[g].list[m].keyword = keyword }
      hits == { n \in DOMAIN cfg.projects : lists(n) # {} }
  IN IF hits = {} THEN <<>>
     ELSE StripScDomain(cfg.projects[CHOOSE n \in hits : \A m \in hits : n <= m].siteUrl)

\* the statement of savePosition that the database refuses, if any
SaveFailures == {"none", "select", "insert", "update"}

\* savePosition when a statement fails: SELECT, INSERT and UPDATE are sent one by
\* one on a client with no BEGIN, so each is committed when it returns
savePositionUntil(history, keywordId, positionData, t, cfg, failedAt) ==
  IF failedAt \in {"select", "insert"} THEN history
  ELSE savePosition(history, keywordId, positionData, t, cfg)

\* one iteration of the loop of trackKeywordBatch, given the provider's answer and
\* the statement of savePosition the database refuses
trackIteration(keyword, answer, failedAt) ==
  LET key == CacheKey(keyword)
      hit == CacheFresh(cache, key, now)
      age == IF key \in DOMAIN cache THEN Some(now - cache[key].timestamp) ELSE NULL
      fetched == ~hit /\ answer # ProviderError
      data == IF hit THEN cache[key].data ELSE answer
      domain == IF hit THEN cache[key].domain ELSE getProjectDomain(config, keyword.keyword)
      error == IF ~hit /\ answer = ProviderError THEN "ProviderError"
               ELSE IF failedAt # "none" THEN "StorageError" ELSE "none"
  IN [ cache |-> IF hit THEN cache ELSE CacheAfterFetch(cache, key, answer, now, domain),
       history |-> IF error = "ProviderError" THEN position_history
                   ELSE savePositionUntil(position_history, keyword.id, data, now, config,
                                          failedAt),
       stats |-> [ stats EXCEPT
                     !.apiCallsMade = IF hit THEN @ ELSE @ + 1,
                     !.positionsUpdated = IF fetched /\ error = "none" THEN @ + 1 ELSE @,
                     !.errors = IF error = "none" THEN @
                                ELSE Append(@, [keyword |-> keyword.keyword, error |-> error]) ],
       error |-> error,
       last |-> [ id |-> keyword.id, time |-> now, age |-> age,
                  via |-> IF hit THEN "cache" ELSE "provider",
                  calls |-> IF hit THEN 0 ELSE 1,
                  saved |-> (error = "none"),
                  rowsBefore |-> Len(position_history),
                  data |-> data,
                  returned |-> <<>> ],
       domain |-> domain,
       returns |-> IF error = "none"
                   THEN { <<r>> : r \in savePositionReturns(position_history, keyword.id, data) }
                   ELSE { <<>> } ]

\* variant of SleepsAfterBatch: the delay after every batch
SleepsAfterBatch_Always(off, cfg, kws) == TRUE

\* if (i + batchSize < keywords.length) await this.sleep(...)
SleepsAfterBatch(off, cfg, kws) == off + cfg.batchSize < Len(kws)

\* the for loop's test i < keywords.length after i += batchSize
NextBatchOrComplete(off, kws) == IF off < Len(kws) THEN "batch" ELSE "complete"

\* trackKeywordBatch, one keyword; after the last keyword of the batch the
\* bookkeeping of trackKeywordsByPriority up to its next await
TrackOne ==
  /\ pc = "batch"
  /\ j < BatchLen(keywords, i, config)
  /\ \E answer \in ProviderAnswers, failedAt \in SaveFailures :
       LET keyword == keywords[i + j + 1]
           it == trackIteration(keyword, answer, failedAt)
           batchLen == BatchLen(keywords, i, config)
           handled == HandledAfter(j, batchLen, it.error # "none")
       IN /\ cache' = it.cache
          /\ position_history' = it.history
          /\ stats' = it.stats
          /\ \E ret \in it.returns : last' = [it.last EXCEPT !.returned = ret]
          /\ attempted' = Append(attempted, [id |-> keyword.id, via |-> it.last.via,
                                             batch |-> did.batches + 1,
                                             domain |-> it.domain,
                                             sleeps |-> did.sleeps,
                                             error |-> it.error,
                                             position |-> IF it.error = "ProviderError"
                                                          THEN NULL ELSE it.last.data.position])
          /\ faults' = IF it.error = "none" THEN faults ELSE faults + 1
          /\ faults' <= MaxFaults
          /\ j' = handled
          /\ IF handled < batchLen
             THEN UNCHANGED <<pc, results, did>>
             ELSE /\ results' = [results EXCEPT !.success = @ + batchLen]
                  /\ did' = [did EXCEPT !.batches = @ + 1]
                  /\ pc' = IF SleepsAfterBatch(i, config, keywords) THEN "sleep" ELSE "complete"
  /\ UNCHANGED <<scriptVars, agentVars, config, tracked_keywords, tracking_alerts, sync_log, now, keywords, i,
                 syncLogId, alertIdx, alertsCreated, alertsBefore, historyBefore, interrupted,
                 change, runs, ticks, weeks>>

\* await this.sleep(delayBetweenBatches), then the loop's i += batchSize and its test
Sleep ==
  /\ pc = "sleep"
  /\ now' = now + config.delayBetweenBatches
  /\ i' = i + config.batchSize
  /\ j' = 0
  /\ pc' = NextBatchOrComplete(i + config.batchSize, keywords)
  /\ did' = [did EXCEPT !.sleeps = @ + 1]
  /\ UNCHANGED <<scriptVars, agentVars, config, dbVars, cache, stats, keywords, results, syncLogId, alertIdx,
                 alertsCreated, change, alertsBefore, historyBefore, interrupted, attempted,
                 last, runs, faults, ticks, weeks>>

\* await this.completeSyncLog(syncLogId, results.success, results.failed, results.errors)
CompleteSyncLog ==
  /\ pc = "complete"
  /\ sync_log' = completeSyncLog(sync_log, syncLogId, results.success, results.failed,
                                 results.errors)
  /\ pc' = "alerts"
  /\ alertIdx' = 1
  /\ alertsCreated' = 0
  /\ UNCHANGED <<scriptVars, agentVars, config, tracked_keywords, position_history, tracking_alerts, cache, stats,
                 now, keywords, i, j, results, syncLogId, change, ghostVars,
                 runs, faults, ticks, weeks>>

\* variant of AlertKinds: the warning rule tried before the critical rule
AlertKinds_WarningFirst(row, cfg) ==
  IF ToNumber(row.position_change) >= cfg.warning THEN <<"warning">>
  ELSE IF ToNumber(row.position_change) >= cfg.critical THEN <<"critical">>
  ELSE IF /\ ToNumber(row.current_position) <= cfg.enterTopN
          /\ ToNumber(row.previous_position) > cfg.enterTopN THEN <<"opportunity">>
  ELSE <<>>

\* variant of AlertKinds: the opportunity rule with the previous position compared
\* the wrong way round
AlertKinds_WrongOpportunity(row, cfg) ==
  IF ToNumber(row.position_change) >= cfg.critical THEN <<"critical">>
  ELSE IF ToNumber(row.position_change) >= cfg.warning THEN <<"warning">>
  ELSE IF /\ ToNumber(row.current_position) <= cfg.enterTopN
          /\ ToNumber(row.previous_position) < cfg.enterTopN THEN <<"opportunity">>
  ELSE <<>>

\* variant of AlertKinds: three independent ifs instead of the else-if chain
AlertKinds_All(row, cfg) ==
  (IF ToNumber(row.position_change) >= cfg.critical THEN <<"critical">> ELSE <<>>)
  \o (IF ToNumber(row.position_change) >= cfg.warning THEN <<"warning">> ELSE <<>>)
  \o (IF /\ ToNumber(row.current_position) <= cfg.enterTopN
         /\ ToNumber(row.previous_position) > cfg.enterTopN THEN <<"opportunity">> ELSE <<>>)

\* the createAlert calls generateAlerts makes for one view row, in order
AlertKinds(row, cfg) == IF AlertKind(row, cfg) = "none" THEN <<>> ELSE <<AlertKind(row, cfg)>>

RECURSIVE createAlerts(_, _, _, _)
createAlerts(alerts, keywordId, kinds, row) ==
  IF kinds = <<>> THEN alerts
  ELSE createAlerts(createAlert(alerts, keywordId, Head(kinds), row.position_change, row),
                    keywordId, Tail(kinds), row)

\* generateAlerts(keywords.map(k => k.id)), one keyword id; after the last one
\* the statistics and the return of trackKeywordsByPriority
AlertOne ==
  /\ pc = "alerts"
  /\ LET keywordId == keywords[alertIdx].id
         rows == v_position_changes_7d(tracked_keywords, position_history, keywordId)
         finish(created) ==
           IF alertIdx < Len(keywords)
           THEN /\ alertIdx' = alertIdx + 1
                /\ alertsCreated' = created
                /\ UNCHANGED <<pc, stats>>
           ELSE /\ alertIdx' = alertIdx
                /\ alertsCreated' = created
                /\ stats' = [stats EXCEPT !.alertsGenerated = @ + created]
                /\ pc' = "done"
     IN IF rows = {}
        THEN /\ UNCHANGED <<tracking_alerts, change>>
             /\ did' = [did EXCEPT !.evaluated = Append(@, keywordId), !.evaluatedAt = now]
             /\ finish(alertsCreated)
        ELSE \E row \in rows :
               /\ change' = row
               /\ did' = [did EXCEPT !.evaluated = Append(@, keywordId), !.evaluatedAt = now]
               /\ tracking_alerts' = createAlerts(tracking_alerts, keywordId,
                                                  AlertKinds(row, config), row)
               /\ finish(alertsCreated + Len(AlertKinds(row, config)))
  /\ UNCHANGED <<scriptVars, agentVars, config, tracked_keywords, position_history, sync_log, cache, now, keywords,
                 i, j, results, syncLogId, alertsBefore, historyBefore, interrupted, attempted,
                 last, runs, faults, ticks, weeks>>

\* completeSyncLog fails (no connection, the UPDATE is refused): the error leaves
\* trackKeywordsByPriority through its catch, which rethrows
StorageError ==
  /\ pc = "complete"
  /\ faults < MaxFaults
  /\ faults' = faults + 1
  /\ pc' = "failed"
  /\ UNCHANGED <<scriptVars, agentVars, config, dbVars, cache, stats, now, runVars, ghostVars, runs, ticks, weeks>>

\* SIGINT while an invocation is awaiting: the handler calls process.exit(0), and
\* everything the process held in memory is gone
Interrupt ==
  /\ pc \in {"batch", "sleep", "complete", "alerts"}
  /\ pc' = "exited"
  /\ cache' = <<>>
  /\ stats' = NoStats
  /\ keywords' = <<>>
  /\ i' = 0
  /\ j' = 0
  /\ results' = NoResults
  /\ alertIdx' = 0
  /\ alertsCreated' = 0
  /\ change' = NoChange
  /\ attempted' = <<>>
  /\ last' = NoLast
  /\ interrupted' = IF pc = "sleep" THEN "betweenBatches" ELSE "elsewhere"
  /\ did' = NoneDone
  /\ options' = NoOptions
  /\ UNCHANGED <<txn, imp, tableBefore, agentVars, config, dbVars, now, syncLogId, alertsBefore,
                 historyBefore, runs, faults, ticks, weeks>>

\* the script is started again: a new SERPTracker with an empty cache and zero statistics
NewProcess ==
  /\ pc \in {"done", "failed", "exited"}
  /\ runs < MaxRuns
  /\ pc' = "idle"
  /\ cache' = <<>>
  /\ stats' = NoStats
  /\ keywords' = <<>>
  /\ i' = 0
  /\ j' = 0
  /\ results' = NoResults
  /\ alertIdx' = 0
  /\ alertsCreated' = 0
  /\ change' = NoChange
  /\ attempted' = <<>>
  /\ last' = NoLast
  /\ interrupted' = "no"
  /\ did' = NoneDone
  /\ options' = NoOptions
  /\ UNCHANGED <<txn, imp, tableBefore, agentVars, config, dbVars, now, syncLogId, alertsBefore,
                 historyBefore, runs, faults, ticks, weeks>>

\* time passes between two awaits: half a cache TTL
Tick ==
  /\ pc = "batch"
  /\ ticks < MaxTicks
  /\ now' = now + (cacheTimeout \div 2)
  /\ ticks' = ticks + 1
  /\ UNCHANGED <<scriptVars, agentVars, config, dbVars, cache, stats, pc, runVars, ghostVars, runs, faults, weeks>>

\* time passes between two invocations: the lookback window of the change view
TickWeek ==
  /\ pc \in {"done", "failed", "exited"}
  /\ runs < MaxRuns
  /\ weeks < MaxWeeks
  /\ now' = now + WindowDays * DayMs
  /\ weeks' = weeks + 1
  /\ UNCHANGED <<scriptVars, agentVars, config, dbVars, cache, stats, pc, runVars, ghostVars, runs, faults, ticks>>

Next ==
  \/ StartTracking
  \/ TrackOne
  \/ Sleep
  \/ CompleteSyncLog
  \/ AlertOne
  \/ StorageError
  \/ Interrupt
  \/ NewProcess
  \/ Tick
  \/ TickWeek

Spec == Init /\ [][Next]_vars


----------------------------------------------------------------------------
(* The script track-priority-keywords.js up to its call of                  *)
(* trackKeywordsByPriority: the import and the dry run                      *)

\* kw.trackingFrequency || priority === 'high' ? 'daily' : 'weekly', which JS
\* reads as (kw.trackingFrequency || priority === 'high') ? 'daily' : 'weekly'
TrackingFrequency(kw, priority) ==
  IF kw.trackingFrequency # NULLTEXT \/ priority = "high" THEN "daily" ELSE "weekly"

\* projectId ? { [projectId]: this.config.projects[projectId] } : this.config.projects
SelectedProjects(cfg, projectId) ==
  IF projectId = NULLTEXT THEN cfg.projects
  ELSE SelectSeq(cfg.projects, LAMBDA pr : pr.id = projectId)

\* this.config.projects[projectId] is undefined: projectData.name throws a TypeError
UnknownProject(cfg, projectId) ==
  projectId # NULLTEXT /\ \A n \in DOMAIN cfg.projects : cfg.projects[n].id # projectId

\* the three nested for-of loops as the sequence of their INSERT statements
EntriesOfList(pr, group) ==
  [ n \in 1..Len(group.list) |->
      [pid |-> pr.id, name |-> pr.name, priority |-> group.priority,
       location |-> pr.location, locationName |-> pr.locationName,
       kw |-> group.list[n]] ]

RECURSIVE EntriesOfProject(_, _)
EntriesOfProject(pr, groups) ==
  IF groups = <<>> THEN <<>>
  ELSE EntriesOfList(pr, Head(groups)) \o EntriesOfProject(pr, Tail(groups))

RECURSIVE EntriesOf(_)
EntriesOf(projects) ==
  IF projects = <<>> THEN <<>>
  ELSE EntriesOfProject(Head(projects), Head(projects).keywords) \o EntriesOf(Tail(projects))

ImportEntries(cfg, projectId) == EntriesOf(SelectedProjects(cfg, projectId))

\* id SERIAL
NextId(table) ==
  IF table = {} THEN 1 ELSE 1 + (CHOOSE m \in { r.id : r \in table } : \A r \in table : r.id <= m)

\* the VALUES of the INSERT of importKeywordsFromConfig, with the defaults of the
\* table for id and created_at
NewKeywordRow(table, e, cfg, t) ==
  [ id |-> NextId(table),
    keyword |-> e.kw.keyword,
    project_id |-> e.pid,
    project_name |-> e.name,
    location_name |-> IF e.locationName = NULLTEXT THEN cfg.locationName ELSE e.locationName,
    created_at |-> t,
    priority |-> e.priority,
    search_volume |-> OrNull(e.kw.searchVolume),
    target_position |-> OrNull(e.kw.targetPosition),
    tracking_frequency |-> TrackingFrequency(e.kw, e.priority),
    location_code |-> IF OrNull(e.location) = NULL THEN cfg.locationCode ELSE Val(e.location),
    device |-> cfg.device,
    is_active |-> TRUE ]

\* the CHECK constraints of tracked_keywords
ChecksHold(row) ==
  /\ row.priority \in {"high", "medium", "low"}
  /\ row.tracking_frequency \in {"daily", "weekly", "monthly"}
  /\ row.device \in {"desktop", "mobile"}

\* UNIQUE(keyword, project_id, device, location_code)
SameKeyword(r, new) ==
  /\ r.keyword = new.keyword
  /\ r.project_id = new.project_id
  /\ r.device = new.device
  /\ r.location_code = new.location_code

\* variant of UpsertKeyword: DO UPDATE SET also is_active = EXCLUDED.is_active
UpsertKeyword_Reactivates(table, new) ==
  IF \E r \in table : SameKeyword(r, new)
  THEN { IF SameKeyword(r, new)
         THEN [r EXCEPT !.priority = new.priority,
                        !.search_volume = new.search_volume,
                        !.target_position = new.target_position,
                        !.tracking_frequency = new.tracking_frequency,
                        !.is_active = new.is_active]
         ELSE r : r \in table }
  ELSE table \cup {new}

\* INSERT INTO tracked_keywords ... ON CONFLICT (...) DO UPDATE SET priority,
\* search_volume, target_position, tracking_frequency (and updated_at)
UpsertKeyword(table, new) ==
  IF \E r \in table : SameKeyword(r, new)
  THEN { IF SameKeyword(r, new)
         THEN [r EXCEPT !.priority = new.priority,
                        !.search_volume = new.search_volume,
                        !.target_position = new.target_position,
                        !.tracking_frequency = new.tracking_frequency]
         ELSE r : r \in table }
  ELSE table \cup {new}

\* variant of Rollback: every statement committed on its own, as with pool.query
Rollback_KeepsStatements(committed, work) == work

\* ROLLBACK: the table as it was committed before BEGIN
Rollback(committed, work) == committed

\* COMMIT
Commit(committed, work) == work

trackerVars == <<position_history, tracking_alerts, sync_log, cache, stats, now, i, j,
                 results, syncLogId, alertIdx, alertsCreated, alertsBefore, historyBefore,
                 interrupted, change, attempted, last, did, runs, ticks, weeks>>

\* main after trackKeywordsByPriority returned: process.exit(1) unless
\* results.success > 0, else the script ends with status 0
LiveExitStatus(res) == IF res.success > 0 THEN 0 ELSE 1

\* where main goes once the import is over or was not asked for
AfterImport(o) == IF o.dryRun THEN "dryrun" ELSE "idle"

\* main: parseArgs, tracker.init(), and with --import the start of
\* importKeywordsFromConfig: BEGIN and the choice of the projects
Main ==
  /\ pc = "start"
  /\ \E o \in Options :
       /\ options' = o
       /\ IF ~o.import
          THEN /\ pc' = AfterImport(o)
               /\ UNCHANGED <<tracked_keywords, txn>>
          ELSE IF UnknownProject(config, o.project)
          THEN /\ pc' = "exit1"
               /\ tracked_keywords' = Rollback(tracked_keywords, tracked_keywords)
               /\ txn' = NoTxn
          ELSE /\ pc' = "import"
               /\ txn' = [open |-> TRUE, table |-> tracked_keywords]
               /\ UNCHANGED tracked_keywords
  /\ tableBefore' = tracked_keywords
  /\ imp' = NoImport
  /\ UNCHANGED <<agentVars, config, trackerVars, keywords, faults>>

\* one INSERT ... ON CONFLICT of the import; a statement the database refuses
\* throws, and the catch rolls back and rethrows to main, which exits with 1
ImportOne ==
  /\ pc = "import"
  /\ imp.pos < Len(ImportEntries(config, options.project))
  /\ \E dbUp \in BOOLEAN :
       LET e == ImportEntries(config, options.project)[imp.pos + 1]
           new == NewKeywordRow(txn.table, e, config, now)
           inserted == \A r \in txn.table : ~SameKeyword(r, new)
       IN /\ ~dbUp => faults < MaxFaults
          /\ faults' = IF dbUp THEN faults ELSE faults + 1
          /\ IF dbUp /\ ChecksHold(new)
             THEN /\ txn' = [txn EXCEPT !.table = UpsertKeyword(txn.table, new)]
                  /\ imp' = [ pos |-> imp.pos + 1,
                              imported |-> IF inserted THEN imp.imported + 1 ELSE imp.imported,
                              skipped |-> IF inserted THEN imp.skipped ELSE imp.skipped + 1 ]
                  /\ UNCHANGED <<tracked_keywords, pc>>
             ELSE /\ tracked_keywords' = Rollback(tracked_keywords, txn.table)
                  /\ txn' = NoTxn
                  /\ pc' = "exit1"
                  /\ UNCHANGED imp
  /\ UNCHANGED <<agentVars, config, trackerVars, keywords, options, tableBefore>>

\* COMMIT after the last statement, and the return to main
ImportCommit ==
  /\ pc = "import"
  /\ imp.pos = Len(ImportEntries(config, options.project))
  /\ \E dbUp \in BOOLEAN :
       /\ ~dbUp => faults < MaxFaults
       /\ faults' = IF dbUp THEN faults ELSE faults + 1
       /\ IF dbUp
          THEN /\ tracked_keywords' = Commit(tracked_keywords, txn.table)
               /\ pc' = AfterImport(options)
          ELSE /\ tracked_keywords' = Rollback(tracked_keywords, txn.table)
               /\ pc' = "exit1"
  /\ txn' = NoTxn
  /\ UNCHANGED <<agentVars, config, trackerVars, keywords, options, imp, tableBefore>>

\* the dry run: getKeywordsToTrack and the listing, then the script ends
DryRun ==
  /\ pc = "dryrun"
  /\ \E kws \in getKeywordsToTrack(tracked_keywords, options.priority, options.project) :
       keywords' = kws
  /\ pc' = "exit0"
  /\ UNCHANGED <<agentVars, config, tracked_keywords, trackerVars, faults, scriptVars>>

ImportInit ==
  /\ config \in ImportConfigs
  /\ tracked_keywords \in {{}, KeywordRows}
  /\ tableBefore = tracked_keywords
  /\ pc = "start"
  /\ AtRest

ImportNext ==
  \/ Main
  \/ ImportOne
  \/ ImportCommit
  \/ DryRun

ImportSpec == ImportInit /\ [][ImportNext]_vars

----------------------------------------------------------------------------
(* savePosition on its own: the calls trackKeywordBatch makes for the active  *)
(* keywords over successive invocations, with what each call returns          *)

\* await this.savePosition(keyword.id, positionData): every statement succeeds
\* and the call returns
SavePositionCall ==
  /\ pc = "idle"
  /\ runs < MaxSaves
  /\ \E keyword \in { k \in tracked_keywords : k.is_active }, positionData \in PositionData :
       \E ret \in savePositionReturns(position_history, keyword.id, positionData) :
         /\ position_history' = savePosition(position_history, keyword.id, positionData,
                                             now, config)
         /\ last' = [NoLast EXCEPT !.id = keyword.id, !.time = now, !.saved = TRUE,
                                   !.rowsBefore = Len(position_history),
                                   !.data = positionData, !.returned = <<ret>>]
  /\ runs' = runs + 1
  /\ UNCHANGED <<scriptVars, agentVars, config, tracked_keywords, tracking_alerts, sync_log, cache, stats,
                 now, pc, runVars, alertsBefore, historyBefore, interrupted, attempted, did,
                 faults, ticks, weeks>>

\* time passes between two calls: half a cache TTL
SaveLater ==
  /\ pc = "idle"
  /\ ticks < MaxTicks
  /\ now' = now + (cacheTimeout \div 2)
  /\ ticks' = ticks + 1
  /\ UNCHANGED <<scriptVars, agentVars, config, dbVars, cache, stats, pc, runVars, ghostVars, runs, faults,
                 weeks>>

\* the configuration at the time of the calls: as it was at the import, or with
\* defaultSettings.device changed to mobile since
SaveConfigs ==
  { c \in Configs : c.batchSize = 1 }
  \cup { [c EXCEPT !.device = "mobile"] : c \in { d \in Configs : d.batchSize = 1 } }

SaveInit ==
  /\ config \in SaveConfigs
  /\ tracked_keywords = KeywordRows
  /\ tableBefore = KeywordRows
  /\ pc = "idle"
  /\ AtRest

SaveNext ==
  \/ SavePositionCall
  \/ SaveLater

SaveSpec == SaveInit /\ [][SaveNext]_vars

----------------------------------------------------------------------------
(* The tracker started on a configuration file it cannot work with: init     *)
(* reads the file and checks nothing in it                                   *)

\* trackKeywordBatch on an empty batch (keywords.slice(i, i) with a batch size of
\* 0): the for-of loop has nothing to do, results.success += 0
EmptyBatch ==
  /\ pc = "batch"
  /\ BatchLen(keywords, i, config) = 0
  /\ results' = [results EXCEPT !.success = @ + BatchLen(keywords, i, config)]
  /\ did' = [did EXCEPT !.batches = @ + 1]
  /\ pc' = IF SleepsAfterBatch(i, config, keywords) THEN "sleep" ELSE "complete"
  /\ UNCHANGED <<scriptVars, agentVars, config, dbVars, cache, stats, now, keywords, i, j, syncLogId,
                 alertIdx, alertsCreated, change, alertsBefore, historyBefore, interrupted,
                 attempted, last, runs, faults, ticks, weeks>>

\* the delay between batches, followed as far as MaxSleeps delays
SleepBounded ==
  /\ did.sleeps < MaxSleeps
  /\ Sleep

\* generateAlerts without config.alertThresholds: reading
\* this.config.alertThresholds.critical throws a TypeError at the first keyword
\* that has a row in the view; the error leaves trackKeywordsByPriority through
\* its catch, which rethrows
GenerateAlertsThrows ==
  /\ pc = "alerts"
  /\ ~config.alertThresholds
  /\ \E row \in v_position_changes_7d(tracked_keywords, position_history,
                                        keywords[alertIdx].id) :
       change' = row
  /\ pc' = "failed"
  /\ UNCHANGED <<scriptVars, agentVars, config, dbVars, cache, stats, now, keywords, i, j, results,
                 syncLogId, alertIdx, alertsCreated, ghostVars, runs, faults, ticks, weeks>>

ConfigInit ==
  /\ config \in BadConfigs
  /\ tracked_keywords = KeywordRows
  /\ tableBefore = KeywordRows
  /\ pc = "idle"
  /\ AtRest

ConfigNext ==
  \/ StartTracking
  \/ TrackOne
  \/ EmptyBatch
  \/ SleepBounded
  \/ CompleteSyncLog
  \/ GenerateAlertsThrows

ConfigSpec == ConfigInit /\ [][ConfigNext]_vars

----------------------------------------------------------------------------
(* SEODomainAgent: the task queue and its one-second processor               *)

serpVars == <<config, dbVars, cache, stats, now, pc, runVars, ghostVars, runs, faults, ticks,
              weeks, scriptVars>>

\* the tasks the orchestrator assigns, as far as addTask and executeTask read
\* them: priority (absent or one of the three) and type ('backlink-analysis' is a
\* capability of the agent that executeTask has no case for)
TaskInputs ==
  [priority : {"high", "medium", "low", NULLTEXT},
   type : {"serp-analysis", "backlink-analysis"}]

\* const priorityOrder = { 'high': 0, 'medium': 1, 'low': 2 }, undefined otherwise
priorityOrder(p) ==
  CASE p = "high" -> Some(0) [] p = "medium" -> Some(1) [] p = "low" -> Some(2)
    [] OTHER -> NULL

\* priorityOrder[seoTask.priority] || 1: undefined and 0 are both falsy
TaskPriority(p) ==
  IF priorityOrder(p) = NULL \/ Val(priorityOrder(p)) = 0 THEN 1 ELSE Val(priorityOrder(p))

\* the for loop of addTask: the place before the first queued task whose
\* priorityOrder is greater than taskPriority, the end of the queue if there is
\* none (undefined > n is false)
InsertIndex(queue, tks, taskPriority) ==
  LET greater == { n \in DOMAIN queue :
                     /\ priorityOrder(tks[queue[n]].priority) # NULL
                     /\ Val(priorityOrder(tks[queue[n]].priority)) > taskPriority }
  IN IF greater = {} THEN Len(queue) + 1
     ELSE CHOOSE n \in greater : \A m \in greater : n <= m

\* this.taskQueue.splice(insertIndex, 0, seoTask)
Splice(queue, at, id) ==
  [ n \in 1..(Len(queue) + 1) |->
      IF n < at THEN queue[n] ELSE IF n = at THEN id ELSE queue[n - 1] ]

\* addTask, on the orchestrator's taskAssigned event
AddTask ==
  /\ Len(tasks) < MaxTasks
  /\ \E task \in TaskInputs :
       LET seoTask == [ id |-> Len(tasks) + 1,
                        type |-> task.type,
                        status |-> "queued",
                        priority |-> IF task.priority = NULLTEXT THEN "medium"
                                     ELSE task.priority ]
       IN /\ tasks' = Append(tasks, seoTask)
          /\ taskQueue' = Splice(taskQueue,
                                 InsertIndex(taskQueue, tasks, TaskPriority(seoTask.priority)),
                                 seoTask.id)
  /\ UNCHANGED <<serpVars, activeTask, metrics, calls, shifted>>

\* variant of TickReady: the timer callback without its test of this.activeTask
TickReady_IgnoresActive(active, queue) == Len(queue) > 0

\* the timer callback's test: !this.activeTask && this.taskQueue.length > 0
TickReady(active, queue) == active = 0 /\ Len(queue) > 0

\* a tick of the one-second timer that finds work: processNextTask up to its
\* await of executeTask
ProcessorTick ==
  /\ TickReady(activeTask, taskQueue)
  /\ activeTask' = Head(taskQueue)
  /\ taskQueue' = Tail(taskQueue)
  /\ tasks' = [tasks EXCEPT ![Head(taskQueue)].status = "processing"]
  /\ calls' = [calls EXCEPT !.execute = @ + 1]
  /\ shifted' = Append(shifted, Head(taskQueue))
  /\ UNCHANGED <<serpVars, metrics>>

\* the task types executeTask has a case for
KnownTypes ==
  {"keyword-research", "competitor-analysis", "serp-analysis", "content-optimization",
   "technical-audit"}

\* executeTask settles: on success processNextTask goes on to its await of
\* storeTaskResult; on an error (an unknown type, a failed analysis) its catch
\* marks the task failed and this.activeTask = null follows
ExecuteTaskSettles ==
  /\ calls.execute > 0
  /\ activeTask # 0
  /\ \E ok \in BOOLEAN :
       /\ ok => tasks[activeTask].type \in KnownTypes
       /\ IF ok
          THEN /\ tasks' = [tasks EXCEPT ![activeTask].status = "completed"]
               /\ calls' = [calls EXCEPT !.execute = @ - 1, !.store = @ + 1]
               /\ UNCHANGED <<activeTask, metrics>>
          ELSE /\ tasks' = [tasks EXCEPT ![activeTask].status = "failed"]
               /\ metrics' = [metrics EXCEPT !.tasksFailed = @ + 1]
               /\ activeTask' = 0
               /\ calls' = [calls EXCEPT !.execute = @ - 1]
  /\ UNCHANGED <<serpVars, taskQueue, shifted>>

\* storeTaskResult returns (it catches its own errors): the metrics, and
\* this.activeTask = null
StoreTaskResultReturns ==
  /\ calls.store > 0
  /\ activeTask # 0
  /\ metrics' = [metrics EXCEPT !.tasksCompleted = @ + 1, !.tasksSuccess = @ + 1]
  /\ activeTask' = 0
  /\ calls' = [calls EXCEPT !.store = @ - 1]
  /\ UNCHANGED <<serpVars, taskQueue, tasks, shifted>>

AgentInit ==
  /\ config \in { c \in Configs : c.batchSize = 1 }
  /\ tracked_keywords = KeywordRows
  /\ tableBefore = KeywordRows
  /\ pc = "idle"
  /\ AtRest

AgentNext ==
  \/ AddTask
  \/ ProcessorTick
  \/ ExecuteTaskSettles
  \/ StoreTaskResultReturns

AgentSpec == AgentInit /\ [][AgentNext]_vars

----------------------------------------------------------------------------
(* Claims *)

Ended == pc \in {"done", "failed"}
InRun == pc \in {"batch", "sleep", "complete", "alerts"}
RowsOf(keywordId) == { n \in DOMAIN position_history : position_history[n].keyword_id = keywordId }
NewAlertsOf(keywordId) ==
  { n \in (alertsBefore + 1)..Len(tracking_alerts) : tracking_alerts[n].keyword_id = keywordId }
ProviderFailures == { n \in DOMAIN attempted : attempted[n].error = "ProviderError" }

\* C1 (as claimed): position_history never holds two records with the same
\* keyword, date, device, location and data source.
C1_OneRecordPerKey ==
  \A a, b \in DOMAIN position_history :
    a # b => ~( /\ position_history[a].keyword_id = position_history[b].keyword_id
                /\ position_history[a].date = position_history[b].date
                /\ position_history[a].device = position_history[b].device
                /\ position_history[a].location = position_history[b].location
                /\ position_history[a].data_source = position_history[b].data_source )

\* C2 (as claimed): when an invocation over n due keywords returns and the lookups
\* of k keywords failed with a provider error, its sync_log row is completed with
\* keywords_success = n - k and keywords_failed = k.
C2_SyncRunCounts ==
  (pc = "done" /\ Len(keywords) > 0) =>
    LET row == sync_log[syncLogId]
        k == Cardinality(ProviderFailures)
    IN /\ row.status = "completed"
       /\ row.keywords_success = Some(Len(keywords) - k)
       /\ row.keywords_failed = Some(k)

\* C3 (as claimed): once an invocation has ended, by returning or by an
\* interruption between two batches, no sync_log row is left in status running.
C3_SyncRunClosed ==
  (pc = "done" \/ (pc = "exited" /\ interrupted = "betweenBatches")) =>
    \A n \in DOMAIN sync_log : sync_log[n].status # "running"

\* C4: during and after an invocation the keywords attempted so far are the due
\* list's first keywords, each once and in order, whatever failed; once the
\* batches are over every due keyword has been attempted, and no keyword has
\* more than one provider call.
C4_EachKeywordOnce ==
  (InRun \/ Ended) =>
    /\ Len(attempted) <= Len(keywords)
    /\ \A n \in DOMAIN attempted : attempted[n].id = keywords[n].id
    /\ pc = "batch" => Len(attempted) = i + j
    /\ pc \in {"complete", "alerts", "done", "failed"} => Len(attempted) = Len(keywords)
    /\ \A n \in DOMAIN keywords :
         Cardinality({ m \in DOMAIN attempted :
                         attempted[m].id = keywords[n].id /\ attempted[m].via = "provider" }) <= 1

\* C4 witness: a two-keyword run has returned although the first keyword failed,
\* and the second was still looked up and stored.
C4_Witness ==
  /\ pc = "done"
  /\ Len(attempted) = 2
  /\ attempted[1].error # "none"
  /\ attempted[2].error = "none"

KeywordById(keywordId) == CHOOSE k \in tracked_keywords : k.id = keywordId
LastKey == CacheKey(KeywordById(last.id))

\* C5 (as claimed): a lookup is served from the cache, without a provider call,
\* when the key's entry is no older than the TTL, and calls the provider when
\* there is no entry or the entry is older than the TTL.
C5_ServedWithinTtl ==
  last.via # "none" =>
    /\ (last.age # NULL /\ Val(last.age) <= cacheTimeout) => last.calls = 0
    /\ (last.age = NULL \/ Val(last.age) > cacheTimeout) => last.calls = 1

\* C5 (amended): a lookup is served from the cache, without a provider call, when
\* the key's entry is younger than the TTL, and calls the provider once when there
\* is no entry or the entry is at least one TTL old; the age counts from the
\* fetch, a hit leaves the entry's timestamp as it was.
C5_ServedBeforeTtl ==
  last.via # "none" =>
    /\ (last.age # NULL /\ Val(last.age) < cacheTimeout) => (last.calls = 0 /\ last.via = "cache")
    /\ (last.age = NULL \/ Val(last.age) >= cacheTimeout) => (last.calls = 1 /\ last.via = "provider")
    /\ last.via = "cache" => cache[LastKey].timestamp = last.time - Val(last.age)
    /\ (last.via = "provider" /\ last.data # ProviderError) => cache[LastKey].timestamp = last.time

\* C5 witness: three lookups of one key on one instance, the second served from
\* the cache, the third after the entry expired: the provider was called twice.
C5_Witness ==
  /\ runs = 2
  /\ stats.apiCallsMade = 2
  /\ stats.positionsUpdated = 2
  /\ Len(position_history) = 3
  /\ \A n \in DOMAIN position_history :
       CacheKey(KeywordById(position_history[n].keyword_id)) = LastKey
  /\ last.via = "provider"
  /\ last.age # NULL
  /\ Val(last.age) > cacheTimeout

\* C6: a lookup served from the cache makes no provider call, and unless the
\* database refuses it, it writes a position record for that keyword with the
\* cached position and the date of the day of the lookup.
C6_CacheHitWritesToday ==
  last.via = "cache" =>
    /\ last.calls = 0
    /\ last.saved =>
         /\ Len(position_history) > 0
         /\ LET r == position_history[Len(position_history)]
            IN /\ r.keyword_id = last.id
               /\ r.position = last.data.position
               /\ r.date = Today(last.time)

\* C6 witness: a cache hit stored a record on the day after the day of the fetch.
C6_Witness ==
  /\ last.via = "cache"
  /\ last.saved
  /\ Today(last.time) # Today(last.time - Val(last.age))
  /\ position_history[Len(position_history)].date = Today(last.time)
  /\ stats.apiCallsMade = 1

Evaluated == pc \in {"alerts", "done"} /\ change.id # 0
NewKindsOf(keywordId) == { tracking_alerts[n].alert_type : n \in NewAlertsOf(keywordId) }
DropAtLeast(threshold) ==
  change.position_change # NULL /\ Val(change.position_change) >= threshold

\* C7: for the keyword generateAlerts evaluated last, with both positions known,
\* position_change is current minus previous position; a critical alert is raised
\* when it is at least the critical threshold, otherwise a warning alert when it
\* is at least the warning threshold.
C7_DropAlerts ==
  (Evaluated /\ change.current_position # NULL /\ change.previous_position # NULL) =>
    /\ change.position_change = Some(Val(change.current_position) - Val(change.previous_position))
    /\ DropAtLeast(config.critical) => "critical" \in NewKindsOf(change.id)
    /\ (~DropAtLeast(config.critical) /\ DropAtLeast(config.warning))
         => "warning" \in NewKindsOf(change.id)

\* C7 witness: 5 -> 16 below the critical threshold raised a warning alert.
C7_Witness ==
  /\ Evaluated
  /\ change.previous_position = Some(5)
  /\ change.current_position = Some(16)
  /\ change.trend = "declined"
  /\ config.critical > 11
  /\ NewKindsOf(change.id) = {"warning"}

C9_AtMostOneAlertPerKeyword ==
  pc \in {"alerts", "done"} =>
    /\ \A k \in tracked_keywords : Cardinality(NewAlertsOf(k.id)) <= 1
    /\ change.id # 0 =>
         /\ "warning" \in NewKindsOf(change.id) => ~DropAtLeast(config.critical)
         /\ "opportunity" \in NewKindsOf(change.id)
              => (~DropAtLeast(config.critical) /\ ~DropAtLeast(config.warning))

\* C9 witness: a drop that matches the critical and the warning rule got one
\* alert, the critical one.
C9_Witness ==
  /\ pc = "done"
  /\ DropAtLeast(config.critical)
  /\ DropAtLeast(config.warning)
  /\ config.warning > 0
  /\ Cardinality(NewAlertsOf(change.id)) = 1
  /\ NewKindsOf(change.id) = {"critical"}

\* C10 (as claimed): when an invocation has returned, every keyword it fetched
\* from the provider and stored, and that had no position record before the
\* invocation, has exactly one position record, carrying the fetched position,
\* and got no alert.
C10_FirstTrackNoAlert ==
  pc = "done" =>
    \A n \in DOMAIN attempted :
      ( /\ attempted[n].error = "none"
        /\ attempted[n].via = "provider"
        /\ \A m \in RowsOf(attempted[n].id) : m > historyBefore ) =>
        /\ Cardinality(RowsOf(attempted[n].id)) = 1
        /\ \A m \in RowsOf(attempted[n].id) :
             position_history[m].position = attempted[n].position
        /\ NewAlertsOf(attempted[n].id) = {}

ImportReturned == options.import /\ pc \in {"dryrun", "idle", "exit0"}
ImportThrew == options.import /\ pc = "exit1"
EntryRow(n) == NewKeywordRow({}, ImportEntries(config, options.project)[n], config, now)
RowsLike(row) == { r \in tracked_keywords : SameKeyword(r, row) }
LastInputOfItsKeyword(n) ==
  \A m \in DOMAIN ImportEntries(config, options.project) :
    m > n => ~SameKeyword(EntryRow(m), EntryRow(n))

\* C11 (as claimed): once an import has returned, every keyword entry of the
\* configuration (the last one for its keyword, project, device and location code)
\* has exactly one row in tracked_keywords, and that row's priority, tracking
\* frequency, target position and search volume are the entry's.
C11_UpsertTakesInput ==
  ImportReturned =>
    \A n \in DOMAIN ImportEntries(config, options.project) :
      LastInputOfItsKeyword(n) =>
        LET e == ImportEntries(config, options.project)[n]
        IN /\ Cardinality(RowsLike(EntryRow(n))) = 1
           /\ \A r \in RowsLike(EntryRow(n)) :
                /\ r.priority = e.priority
                /\ r.target_position = e.kw.targetPosition
                /\ r.search_volume = e.kw.searchVolume
                /\ e.kw.trackingFrequency # NULLTEXT
                     => r.tracking_frequency = e.kw.trackingFrequency

\* C12: while an import is under way the table is as it was before the call; an
\* import that threw leaves the table as it was before the call; an import that
\* returned has executed every statement and the table holds a row for every
\* keyword entry of the configuration.
C12_ImportAllOrNothing ==
  /\ pc = "import" => tracked_keywords = tableBefore
  /\ ImportThrew => (tracked_keywords = tableBefore /\ ~txn.open)
  /\ ImportReturned =>
       /\ imp.pos = Len(ImportEntries(config, options.project))
       /\ imp.imported + imp.skipped = imp.pos
       /\ ~txn.open
       /\ \A n \in DOMAIN ImportEntries(config, options.project) : RowsLike(EntryRow(n)) # {}

\* C12 witness: an import threw after a statement of it had added a row inside
\* the transaction, and the table is as before the call.
C12_Witness ==
  /\ ImportThrew
  /\ imp.imported >= 1
  /\ tracked_keywords = tableBefore

\* C19 (as claimed): a dry run of the script, with or without --import, leaves
\* tracked_keywords, position_history, tracking_alerts and sync_log as they were
\* and calls the provider not once.
C19_DryRunChangesNothing ==
  (options.dryRun /\ pc # "start") =>
    /\ tracked_keywords = tableBefore
    /\ position_history = <<>>
    /\ tracking_alerts = <<>>
    /\ sync_log = <<>>
    /\ stats.apiCallsMade = 0

\* C13 (as claimed): a savePosition that failed has persisted nothing: after a
\* loop iteration whose savePosition threw, position_history has the rows it had
\* before the iteration.
C13_SavePositionAtomic ==
  (last.via # "none" /\ ~last.saved) => Len(position_history) = last.rowsBefore

Due ==
  { k \in tracked_keywords : /\ k.is_active
                             /\ k.priority = options.priority
                             /\ (options.project # NULLTEXT => k.project_id = options.project) }

\* C14: the due list of an invocation holds exactly the active keywords of the
\* given priority and, when given, project, each once; and no inactive keyword
\* is looked up, gets a position record or gets an alert in the invocation.
C14_OnlyActiveMatching ==
  (InRun \/ Ended) =>
    /\ { keywords[n] : n \in DOMAIN keywords } = Due
    /\ Len(keywords) = Cardinality(Due)
    /\ \A k \in tracked_keywords :
         ~k.is_active =>
           /\ \A n \in DOMAIN attempted : attempted[n].id # k.id
           /\ \A n \in RowsOf(k.id) : n <= historyBefore
           /\ NewAlertsOf(k.id) = {}

\* C14 witness: an invocation has returned that tracked the two active keywords
\* of its priority while an inactive keyword of that priority exists.
C14_Witness ==
  /\ pc = "done"
  /\ Len(attempted) = 2
  /\ Len(position_history) - historyBefore = 2
  /\ \E k \in tracked_keywords : ~k.is_active /\ k.priority = options.priority

\* C15 (as claimed): when an invocation with an empty due list has returned,
\* sync_log holds a SyncRun over zero keywords, completed with zero succeeded
\* and zero failed.
C15_EmptyRunLogged ==
  (pc = "done" /\ Len(keywords) = 0) =>
    \E n \in DOMAIN sync_log :
      /\ sync_log[n].keywords_processed = 0
      /\ sync_log[n].status = "completed"
      /\ sync_log[n].keywords_success = Some(0)
      /\ sync_log[n].keywords_failed = Some(0)

BatchesOf(n, size) == (n + size - 1) \div size

\* C16: the delay is slept once between every two consecutive batches and never
\* after the final one: while batch b + 1 runs there have been b sleeps, and once
\* the batches of a non-empty due list are over there have been as many batches
\* as the list needs, at least one, and one sleep fewer.
C16_SleepsBetweenBatches ==
  /\ pc = "batch" => did.sleeps = did.batches
  /\ pc = "sleep" => (did.sleeps = did.batches - 1 /\ i + j < Len(keywords))
  /\ (pc \in {"complete", "alerts", "done", "failed"} /\ Len(keywords) > 0) =>
       /\ did.batches = BatchesOf(Len(keywords), config.batchSize)
       /\ did.batches >= 1
       /\ did.sleeps = did.batches - 1

\* C16 witness: an invocation of two batches has returned after one sleep.
C16_Witness ==
  /\ pc = "done"
  /\ did.batches = 2
  /\ did.sleeps = 1

TimesEvaluated(keywordId) ==
  Cardinality({ n \in DOMAIN did.evaluated : did.evaluated[n] = keywordId })

\* C17 (as claimed): when an invocation has returned, generateAlerts has
\* evaluated each keyword whose lookup succeeded once, and no keyword whose
\* lookup failed.
C17_AlertsForUpdatedOnly ==
  pc = "done" =>
    \A n \in DOMAIN attempted :
      TimesEvaluated(attempted[n].id) = IF attempted[n].error = "none" THEN 1 ELSE 0

\* C18 (as claimed): once the SyncRun of an invocation is completed, its error
\* list has one entry for every keyword whose lookup failed.
C18_ErrorsInSyncLog ==
  (pc \in {"alerts", "done"} /\ Len(keywords) > 0) =>
    Len(sync_log[syncLogId].errors) =
      Cardinality({ n \in DOMAIN attempted : attempted[n].error # "none" })

PreviousAsOf(keywordId, day) ==
  LET old == { position_history[n] :
                 n \in { m \in RowsOf(keywordId) : position_history[m].date <= day - WindowDays } }
  IN IF old = {} THEN {NULL} ELSE { r.position : r \in LatestOf(old) }

\* C20 (as claimed): the previous position generateAlerts compares a keyword's
\* newest position against is that of the keyword's most recent record dated at
\* or before the day of the evaluation minus seven days (none: null).
C20_PreviousAsOfNow ==
  Evaluated => change.previous_position \in PreviousAsOf(change.id, Today(did.evaluatedAt))

\* C22: the lookups of an invocation happen one after the other in the order of
\* the due list, lookup n within batch (n - 1) div batchSize + 1, after all
\* lookups of the batches before it and after one delay per batch before it.
C22_BatchesSequential ==
  (InRun \/ Ended) =>
    \A n \in DOMAIN attempted :
      /\ attempted[n].id = keywords[n].id
      /\ attempted[n].batch = ((n - 1) \div config.batchSize) + 1
      /\ attempted[n].sleeps = attempted[n].batch - 1
      /\ \A m \in DOMAIN attempted : m < n => attempted[m].batch <= attempted[n].batch

\* C22 witness: the second keyword of a run was looked up in a second batch,
\* after one delay.
C22_Witness ==
  /\ pc = "done"
  /\ Len(attempted) = 2
  /\ attempted[1].batch = 1
  /\ attempted[2].batch = 2
  /\ attempted[2].sleeps = 1

C24_RerunSameDay ==
  pc = "done" =>
    \A a \in 1..historyBefore :
      \A b \in (historyBefore + 1)..Len(position_history) :
        ~( /\ position_history[a].keyword_id = position_history[b].keyword_id
           /\ position_history[a].date = position_history[b].date
           /\ position_history[a].position = position_history[b].position
           /\ position_history[a].url = position_history[b].url )

\* C25 (as claimed): no two position records of one keyword carry the same date.
C25_TotalOrderByDate ==
  \A k \in tracked_keywords :
    \A a, b \in RowsOf(k.id) :
      a # b => position_history[a].date # position_history[b].date

\* C26: no step removes or changes an alert row that exists: tracking_alerts
\* only ever grows at its end.
C26_AlertsAppendOnly ==
  [][ \A n \in DOMAIN tracking_alerts :
        /\ n \in DOMAIN tracking_alerts'
        /\ tracking_alerts'[n] = tracking_alerts[n] ]_vars

\* C26 witness: an invocation added an alert for a keyword that had an alert
\* from an earlier invocation, and the earlier row is still there.
C26_Witness ==
  /\ alertsBefore >= 1
  /\ Len(tracking_alerts) > alertsBefore
  /\ tracking_alerts[1].keyword_id = tracking_alerts[Len(tracking_alerts)].keyword_id
  /\ tracking_alerts[1].id = 1

\* C30: the cache holds results of successful lookups only; after a lookup whose
\* provider request failed, position_history has the rows it had before and the
\* cache entry of the key is as it was (absent, or with its old timestamp).
C30_FailureLeavesCache ==
  /\ \A k \in DOMAIN cache : cache[k].data \in PositionData
  /\ (last.via = "provider" /\ last.data = ProviderError) =>
       /\ Len(position_history) = last.rowsBefore
       /\ IF last.age = NULL
          THEN LastKey \notin DOMAIN cache
          ELSE /\ LastKey \in DOMAIN cache
               /\ cache[LastKey].timestamp = last.time - Val(last.age)

\* C30 witness: the provider request for a key whose cache entry had expired
\* failed, and the expired entry is still in the cache.
C30_Witness ==
  /\ last.via = "provider"
  /\ last.data = ProviderError
  /\ last.age # NULL
  /\ LastKey \in DOMAIN cache


\* the columns of a tracked_keywords row an upsert on an existing row has to keep
FrameOf(r) ==
  [id |-> r.id, created_at |-> r.created_at, is_active |-> r.is_active,
   project_name |-> r.project_name, location_name |-> r.location_name,
   keyword |-> r.keyword, project_id |-> r.project_id, device |-> r.device,
   location_code |-> r.location_code]
FrameKept(before, after) ==
  \A r \in before : \E q \in after : FrameOf(q) = FrameOf(r)
ReimportedRows ==
  { r \in tableBefore : \E n \in DOMAIN ImportEntries(config, options.project) :
                           SameKeyword(r, EntryRow(n)) }

\* C27: an upsert of the import that hits an existing row leaves the row's id,
\* created timestamp, active flag, project name and location name (and its
\* identity columns) as they were, inside the transaction and after the commit;
\* a soft-disabled keyword stays disabled after a re-import.
C27_UpsertFrame ==
  /\ (pc = "import" /\ txn.open) => FrameKept(tableBefore, txn.table)
  /\ ImportReturned =>
       /\ FrameKept(tableBefore, tracked_keywords)
       /\ \A r \in tableBefore : ~r.is_active =>
            \A q \in tracked_keywords : q.id = r.id => ~q.is_active

\* C27 witness: an import has returned that re-imported a soft-disabled keyword
\* and a keyword whose project and location were renamed in the configuration.
C27_Witness ==
  /\ ImportReturned
  /\ imp.skipped >= 1
  /\ \E r \in ReimportedRows : ~r.is_active
  /\ \E r \in ReimportedRows : \E n \in DOMAIN ImportEntries(config, options.project) :
       /\ SameKeyword(r, EntryRow(n))
       /\ EntryRow(n).project_name # r.project_name
       /\ EntryRow(n).location_name # r.location_name
       /\ \E q \in tracked_keywords : q.id = r.id /\ q.priority # r.priority

\* high before medium before low
PriorityRank(p) == CASE p = "high" -> 3 [] p = "medium" -> 2 [] p = "low" -> 1
VolumeNotAfter(a, b) ==
  \/ b.search_volume = NULL
  \/ a.search_volume # NULL /\ Val(a.search_volume) >= Val(b.search_volume)

\* C29 (as claimed): the list getKeywordsToTrack returned to the dry run has high
\* before medium before low and, within one priority, the greater known search
\* volume first, the keywords of unknown volume after those of known volume.
C29_OrderedByPriorityAndVolume ==
  (options.dryRun /\ pc = "exit0") =>
    \A a, b \in DOMAIN keywords : a < b =>
      /\ PriorityRank(keywords[a].priority) >= PriorityRank(keywords[b].priority)
      /\ keywords[a].priority = keywords[b].priority
           => VolumeNotAfter(keywords[a], keywords[b])


\* the rows of a keyword among the first n rows of position_history
RowsOfUpTo(keywordId, n) ==
  { m \in 1..n : position_history[m].keyword_id = keywordId }

\* C28 (as claimed): a savePosition that returned gave as currentPosition the
\* position it wrote and as previousPosition the position of the keyword's record
\* written last before the call, null when the keyword had no record.
C28_ReturnsPreceding ==
  last.returned # <<>> =>
    LET ret == last.returned[1]
        earlier == RowsOfUpTo(last.id, last.rowsBefore)
    IN /\ ret.currentPosition = last.data.position
       /\ earlier = {} => ret.previousPosition = NULL
       /\ earlier # {} =>
            \E m \in earlier :
              /\ \A q \in earlier : q <= m
              /\ ret.previousPosition = position_history[m].position


\* a configuration the tracker can work with
ConfigValid(cfg) == cfg.batchSize >= 1 /\ cfg.alertThresholds

\* C21 (as claimed): with a batch size of 0 or without alert thresholds in the
\* configuration nothing is begun: no SyncRun is opened, the provider is not
\* called, no position is written, no batch is empty and no invocation fails
\* after its tracking.
C21_RejectedAtStartup ==
  ~ConfigValid(config) =>
    /\ sync_log = <<>>
    /\ position_history = <<>>
    /\ stats.apiCallsMade = 0
    /\ did.batches <= Len(keywords)
    /\ pc # "failed"


\* C31 (as claimed): an invocation that returned without error and in which no
\* keyword failed, an empty due list included, makes the script end with exit
\* status 0.
C31_EmptyRunExitsZero ==
  (pc = "done" /\ results.failed = 0 /\ \A n \in DOMAIN attempted : attempted[n].error = "none")
    => LiveExitStatus(results) = 0

\* the domain of the project a tracked keyword belongs to
OwnDomain(cfg, row) ==
  LET mine == { n \in DOMAIN cfg.projects : cfg.projects[n].id = row.project_id }
  IN IF mine = {} THEN <<>> ELSE StripScDomain(cfg.projects[CHOOSE n \in mine : TRUE].siteUrl)

\* C32 (as claimed): every position determined for a tracked keyword, by a
\* lookup or from the cache, is the rank of the domain of the keyword's own
\* project.
C32_OwnProjectDomain ==
  \A n \in DOMAIN attempted :
    attempted[n].error # "ProviderError" =>
      attempted[n].domain = OwnDomain(config, KeywordById(attempted[n].id))


\* C33 (as claimed): every position record carries the device of the tracked
\* keyword it was written for.
C33_RecordCarriesKeywordDevice ==
  \A n \in DOMAIN position_history :
    position_history[n].device = KeywordById(position_history[n].keyword_id).device


\* the thresholds of the configuration are all positive
PositiveThresholds(cfg) == cfg.critical > 0 /\ cfg.warning > 0 /\ cfg.enterTopN > 0

\* C34 (as claimed): with positive thresholds no alert is raised for a keyword
\* whose current position or whose position of seven days earlier is absent.
C34_NoAlertOnAbsentPosition ==
  PositiveThresholds(config) =>
    \A n \in DOMAIN tracking_alerts :
      /\ tracking_alerts[n].old_position # NULL
      /\ tracking_alerts[n].new_position # NULL

\* C35 (as claimed): in every alert row position_change is new_position minus
\* old_position; with positive thresholds a critical or warning alert has a new
\* position greater than the old one and a change of at least its threshold, and
\* an opportunity alert has new_position <= enterTopN < old_position.
C35_AlertSelfConsistent ==
  \A n \in DOMAIN tracking_alerts :
    LET a == tracking_alerts[n]
        known == a.old_position # NULL /\ a.new_position # NULL
    IN /\ a.position_change = SqlMinus(a.new_position, a.old_position)
       /\ PositiveThresholds(config) =>
            /\ a.alert_type = "critical" =>
                 /\ known
                 /\ Val(a.new_position) > Val(a.old_position)
                 /\ Val(a.position_change) >= config.critical
            /\ a.alert_type = "warning" =>
                 /\ known
                 /\ Val(a.new_position) > Val(a.old_position)
                 /\ Val(a.position_change) >= config.warning
            /\ a.alert_type = "opportunity" =>
                 /\ known
                 /\ Val(a.new_position) <= config.enterTopN
                 /\ Val(a.old_position) > config.enterTopN


\* high before medium before low
QueueRank(p) == CASE p = "high" -> 0 [] p = "medium" -> 1 [] p = "low" -> 2

\* C36 (as claimed): the task queue is ordered by priority, every high task
\* before every medium task before every low task, and tasks of equal priority are
\* in the order of their arrival.
C36_QueueByPriorityThenArrival ==
  \A a, b \in DOMAIN taskQueue : a < b =>
    /\ QueueRank(tasks[taskQueue[a]].priority) <= QueueRank(tasks[taskQueue[b]].priority)
    /\ tasks[taskQueue[a]].priority = tasks[taskQueue[b]].priority
         => taskQueue[a] < taskQueue[b]

\* C37: at most one task has status processing and at most one processNextTask
\* call is under way; every task is either still queued, once, or was taken from
\* the queue, once; the active task is processing or completed, never failed; and
\* when no call is under way activeTask is null, whatever the outcome of the last
\* task was.
C37_OneActiveTask ==
  /\ Cardinality({ id \in DOMAIN tasks : tasks[id].status = "processing" }) <= 1
  /\ calls.execute + calls.store <= 1
  /\ \A a, b \in DOMAIN shifted : a # b => shifted[a] # shifted[b]
  /\ \A a, b \in DOMAIN taskQueue : a # b => taskQueue[a] # taskQueue[b]
  /\ \A id \in DOMAIN tasks :
       (\E n \in DOMAIN taskQueue : taskQueue[n] = id)
         # (\E n \in DOMAIN shifted : shifted[n] = id)
  /\ \A n \in DOMAIN taskQueue : tasks[taskQueue[n]].status = "queued"
  /\ activeTask # 0 =>
       /\ calls.execute + calls.store = 1
       /\ activeTask = shifted[Len(shifted)]
       /\ tasks[activeTask].status = IF calls.execute = 1 THEN "processing" ELSE "completed"
  /\ activeTask = 0 =>
       /\ calls.execute + calls.store = 0
       /\ \A n \in DOMAIN shifted : tasks[shifted[n]].status \in {"completed", "failed"}
  /\ metrics.tasksFailed + metrics.tasksCompleted
       = Cardinality({ n \in DOMAIN shifted : tasks[shifted[n]].status \in {"completed", "failed"} })
         - calls.store

\* C37 witness: a task failed, the task queued behind it was taken and is
\* processing, and another task, added meanwhile, waits in the queue.
C37_Witness ==
  /\ Len(shifted) = 2
  /\ tasks[shifted[1]].status = "failed"
  /\ activeTask = shifted[2]
  /\ tasks[activeTask].status = "processing"
  /\ Len(taskQueue) = 1

============================================================================
